---- MODULE Spec2Model ----
\* Model of the two batch scripts of the photo gallery, working/generate_thumbs.py
\* and working/resize_for_web.py, running one after another on one directory
\* tree (images/, thumbs/, images_backup/) of a POSIX filesystem.
EXTENDS Integers, Sequences, FiniteSets, TLC

\* ---- bounds of the model ----
MaxFiles == 2       \* entries in images/ at the start
MaxRuns == 2        \* script invocations in one behaviour
MaxFaults == 1      \* I/O faults (disk full, permission denied, kill) in one behaviour

\* ---- configuration constants of the scripts ----
MAX_DIMENSION == 3000
QUALITY == 80
THUMBNAIL_HEIGHT == 250
ThumbQuality == 85

\* ---- IEEE-754 binary64 arithmetic on the values the scripts compute ----
\* A positive double is [e, m]: value = 2^e * (1 + m[1]/B + m[2]/B^2 + m[3]/B^3 + m[4]/B^4)
\* with B = 2^13, i.e. the implicit leading bit and the 52 stored fraction bits.
DigitBits == 13
Digits == 4
Base == 8192

RECURSIVE Pow2(_)
Pow2(n) == IF n <= 0 THEN 1 ELSE 2 * Pow2(n - 1)

\* largest e >= 0 with b * 2^e <= a   (a >= b)
RECURSIVE ExpUp(_, _)
ExpUp(a, b) == IF 2 * b <= a THEN 1 + ExpUp(a, 2 * b) ELSE 0

\* smallest k >= 1 with a * 2^k >= b   (a < b)
RECURSIVE ExpDown(_, _)
ExpDown(a, b) == IF 2 * a >= b THEN 1 ELSE 1 + ExpDown(2 * a, b)

\* number of bits of n >= 1
RECURSIVE BitLen(_)
BitLen(n) == IF n <= 1 THEN 1 ELSE 1 + BitLen(n \div 2)

\* the remainder left after i base-B quotient digits of rem/den
RECURSIVE RemAfter(_, _, _)
RemAfter(rem, den, i) ==
    IF i = 0 THEN rem ELSE (RemAfter(rem, den, i - 1) * Base) % den

QuotDigits(rem, den) ==
    [i \in 1..Digits |-> (RemAfter(rem, den, i - 1) * Base) \div den]

\* m + 1 in the last place; the carry out of the first digit is dropped
IncDigits(m) ==
    [i \in 1..Digits |->
        IF \A j \in (i + 1)..Digits : m[j] = Base - 1
        THEN (m[i] + 1) % Base ELSE m[i]]

\* round-half-to-even, given the first discarded bit and whether anything
\* nonzero follows it
RoundNearestEven(m, e, roundBit, sticky) ==
    IF roundBit = 1 /\ (sticky \/ m[Digits] % 2 = 1)
    THEN IF \A j \in 1..Digits : m[j] = Base - 1
         THEN [m |-> [i \in 1..Digits |-> 0], e |-> e + 1]
         ELSE [m |-> IncDigits(m), e |-> e]
    ELSE [m |-> m, e |-> e]

\* a / b for two positive ints converted to double: the correctly rounded quotient
FloatDiv(a, b) ==
    LET e    == IF a >= b THEN ExpUp(a, b) ELSE 0 - ExpDown(a, b)
        num  == IF e >= 0 THEN a ELSE a * Pow2(0 - e)
        den  == IF e >= 0 THEN b * Pow2(e) ELSE b
        rest == RemAfter(num - den, den, Digits)
    IN  RoundNearestEven(QuotDigits(num - den, den), e,
                         IF 2 * rest >= den THEN 1 ELSE 0,
                         2 * rest # den /\ rest # 0)

\* carry into digit i of m * k (digits are multiplied from the last to the first)
RECURSIVE MulCarry(_, _, _)
MulCarry(m, k, i) ==
    IF i = Digits THEN 0 ELSE (m[i + 1] * k + MulCarry(m, k, i + 1)) \div Base

\* x * k for a double x and a positive int k converted to double: the exact
\* product, rounded to 53 significant bits
FloatMulInt(x, k) ==
    LET prod == [i \in 1..Digits |-> (x.m[i] * k + MulCarry(x.m, k, i)) % Base]
        top  == k + MulCarry(x.m, k, 0)
        s    == BitLen(top) - 1
        hi(i) == IF i = 1 THEN top ELSE prod[i - 1]
        kept == [i \in 1..Digits |->
                    (hi(i) % Pow2(s)) * Pow2(DigitBits - s) + prod[i] \div Pow2(s)]
        lost == prod[Digits] % Pow2(s)
    IN  IF s = 0 THEN [m |-> prod, e |-> x.e]
        ELSE RoundNearestEven(kept, x.e + s,
                              lost \div Pow2(s - 1), lost % Pow2(s - 1) # 0)

\* d * 2^sh, rounded down
Shift(d, sh) ==
    IF sh >= 0 THEN d * Pow2(sh)
    ELSE IF sh <= 0 - DigitBits THEN 0 ELSE d \div Pow2(0 - sh)

RECURSIVE SumShifted(_, _, _)
SumShifted(m, e, i) ==
    IF i = 0 THEN 0
    ELSE Shift(m[i], e - DigitBits * i) + SumShifted(m, e, i - 1)

\* int(x) for a positive double x below 2^31
FloatToInt(x) == IF x.e < 0 THEN 0 ELSE Pow2(x.e) + SumShifted(x.m, x.e, Digits)

ScaleTrunc(a, b, k) == FloatToInt(FloatMulInt(FloatDiv(a, b), k))


\* ---- file names, glob patterns and path ordering ----
UpperCase == <<"A", "B", "C", "D", "E", "F", "G", "H", "I", "J", "K", "L", "M",
               "N", "O", "P", "Q", "R", "S", "T", "U", "V", "W", "X", "Y", "Z">>
LowerCase == <<"a", "b", "c", "d", "e", "f", "g", "h", "i", "j", "k", "l", "m",
               "n", "o", "p", "q", "r", "s", "t", "u", "v", "w", "x", "y", "z">>

\* code point of a character
Ord(ch) ==
    IF ch = "." THEN 46
    ELSE IF \E i \in 1..26 : UpperCase[i] = ch
         THEN 64 + (CHOOSE i \in 1..26 : UpperCase[i] = ch)
         ELSE 96 + (CHOOSE i \in 1..26 : LowerCase[i] = ch)

\* str.lower() on one character
Lower(ch) ==
    IF \E i \in 1..26 : UpperCase[i] = ch
    THEN LowerCase[CHOOSE i \in 1..26 : UpperCase[i] = ch]
    ELSE ch

LowerName(name) == [i \in 1..Len(name) |-> Lower(name[i])]

\* str.__lt__ on two names: lexicographic by code point
RECURSIVE CharsLess(_, _)
CharsLess(a, b) ==
    IF b = << >> THEN FALSE
    ELSE IF a = << >> THEN TRUE
    ELSE IF a[1] # b[1] THEN Ord(a[1]) < Ord(b[1])
    ELSE CharsLess(Tail(a), Tail(b))

Names == {"a.jpg", "B.JPEG", "c.Jpg"}

\* the characters of a name
Chars(name) ==
    CASE name = "a.jpg"  -> <<"a", ".", "j", "p", "g">>
      [] name = "B.JPEG" -> <<"B", ".", "J", "P", "E", "G">>
      [] name = "c.Jpg"  -> <<"c", ".", "J", "p", "g">>

\* Path.__lt__ on two entries of one directory
NameLess(a, b) == CharsLess(Chars(a), Chars(b))

\* the suffixes of the four glob patterns '*.jpg', '*.jpeg', '*.JPG', '*.JPEG'
Patterns == << <<".", "j", "p", "g">>, <<".", "j", "p", "e", "g">>,
               <<".", "J", "P", "G">>, <<".", "J", "P", "E", "G">> >>

\* fnmatch of a name against '*' followed by suffix, case-sensitively
FnMatch(name, suffix) ==
    LET chars == Chars(name)
    IN  /\ Len(chars) >= Len(suffix)
        /\ SubSeq(chars, Len(chars) - Len(suffix) + 1, Len(chars)) = suffix

\* a set of names as a list, in ascending order
RECURSIVE SortedSeq(_)
SortedSeq(S) ==
    IF S = {} THEN << >>
    ELSE LET least == CHOOSE x \in S : \A y \in S \ {x} : NameLess(x, y)
         IN  <<least>> \o SortedSeq(S \ {least})

\* sorted(list)
RECURSIVE Sorted(_)
Insert(x, sortedList) ==
    LET before == SelectSeq(sortedList, LAMBDA y : ~NameLess(x, y))
        after  == SelectSeq(sortedList, LAMBDA y : NameLess(x, y))
    IN  before \o <<x>> \o after
Sorted(list) == IF list = << >> THEN << >> ELSE Insert(Head(list), Sorted(Tail(list)))

\* ---- file contents ----
\* kind: "jpeg", "garbage" (not an image), "dir" (a directory), "absent"
\* w, h: stored pixel size; o: EXIF orientation tag, 0 when the file has none
\* q: quality of the last encode by a script, 0 for a file no script wrote
\* enc: how many lossy encodes by the scripts the pixels went through
\* cut: the file was left truncated by a failed write
Absent == [kind |-> "absent", w |-> 0, h |-> 0, o |-> 0, q |-> 0, enc |-> 0, cut |-> FALSE]
Garbage == [kind |-> "garbage", w |-> 0, h |-> 0, o |-> 0, q |-> 0, enc |-> 0, cut |-> FALSE]
Directory == [kind |-> "dir", w |-> 0, h |-> 0, o |-> 0, q |-> 0, enc |-> 0, cut |-> FALSE]
Jpeg(w, h, o) == [kind |-> "jpeg", w |-> w, h |-> h, o |-> o, q |-> 0, enc |-> 0, cut |-> FALSE]

\* what images/ may hold at the start
Originals == { Jpeg(4000, 3000, 6), Jpeg(2010, 500, 6), Jpeg(3040, 1748, 1),
               Jpeg(5000, 5000, 3), Jpeg(1, 4000, 0), Garbage, Directory }

Exists(c) == c.kind # "absent"
Truncated(c) == [c EXCEPT !.cut = TRUE]
\* Image.open(...) followed by loading the pixels succeeds
Decodable(c) == c.kind = "jpeg" /\ ~c.cut

Max(a, b) == IF a >= b THEN a ELSE b
Min(a, b) == IF a <= b THEN a ELSE b

\* ---- the image operations ----
\* ImageOps.exif_transpose: orientations 5..8 exchange the axes, 2..4 keep
\* them; the orientation tag of a transposed image is removed
SwapsAxes(o) == o \in {5, 6, 7, 8}
ExifTranspose_axesKept(img) == [img EXCEPT !.o = 0]
ExifTranspose(img) ==
    IF SwapsAxes(img.o) THEN [img EXCEPT !.w = img.h, !.h = img.w, !.o = 0]
    ELSE IF img.o \in {2, 3, 4} THEN [img EXCEPT !.o = 0]
    ELSE img

\* resize_for_web: the branch that scales
NeedsResize_atLimit(width, height) == Max(width, height) >= MAX_DIMENSION
NeedsResize(width, height) == Max(width, height) > MAX_DIMENSION

\* resize_for_web: new_width, new_height
NewSize(width, height) ==
    IF width > height
    THEN [w |-> MAX_DIMENSION, h |-> ScaleTrunc(height, width, MAX_DIMENSION)]
    ELSE [w |-> ScaleTrunc(width, height, MAX_DIMENSION), h |-> MAX_DIMENSION]

\* generate_thumbnail: new_width
ThumbWidth_rounded(width, height) ==
    (2 * THUMBNAIL_HEIGHT * width + height) \div (2 * height)
ThumbWidth(width, height) == ScaleTrunc(width, height, THUMBNAIL_HEIGHT)

\* Image.resize raises ValueError unless both sides are positive
Resizable(w, h) == w > 0 /\ h > 0

\* the orientation tag of a file written by save(..., exif=b"")
SavedOrientation_kept(img) == img.o
SavedOrientation(img) == 0

\* the file img.save writes: w x h pixels, encoded once more, at quality q
SavedWeb(img, w, h) ==
    [kind |-> "jpeg", w |-> w, h |-> h, o |-> SavedOrientation(img), q |-> QUALITY,
     enc |-> img.enc + 1, cut |-> FALSE]
SavedThumb(img, w, h) ==
    [kind |-> "jpeg", w |-> w, h |-> h, o |-> 0, q |-> ThumbQuality,
     enc |-> img.enc + 1, cut |-> FALSE]

\* ---- state ----
VARIABLES
    imagesDir, thumbsDir, backupDir,   \* the directory exists
    images, thumbs, backup,            \* name -> content, Absent when there is no entry
    pc,         \* "idle": no script runs; "thumbs": generate_thumbs in its loop;
                \* "backup", "resize": resize_for_web before the copy, before the resize
    todo,       \* the part of sorted(image_files) the loop has not reached
    found,      \* len(image_files) of the current or last run
    out,        \* the last line printed
    runs, faults,
    pristine,   \* images as it was before any run
    processed,  \* names resize_for_web has saved successfully
    allThumbed, \* every discovered file had a thumbnail when the thumbnail run started
    skips, writes   \* "Skipped" lines and save calls of the thumbnail run

vars == <<imagesDir, thumbsDir, backupDir, images, thumbs, backup, pc, todo, found,
          out, runs, faults, pristine, processed, allThumbed, skips, writes>>

NoName == ""
Line(by, kind, name, n) ==
    [by |-> by, kind |-> kind, name |-> name, n |-> n, w |-> 0, h |-> 0, nw |-> 0, nh |-> 0]
SizeLine(by, kind, name, w, h, nw, nh) ==
    [by |-> by, kind |-> kind, name |-> name, n |-> 0, w |-> w, h |-> h, nw |-> nw, nh |-> nh]

Present(dir) == {f \in Names : Exists(dir[f])}

Init ==
    /\ imagesDir \in BOOLEAN
    /\ images \in [Names -> Originals \cup {Absent}]
    /\ Cardinality(Present(images)) <= MaxFiles
    /\ ~imagesDir => Present(images) = {}
    /\ thumbsDir = FALSE /\ backupDir = FALSE
    /\ thumbs = [f \in Names |-> Absent]
    /\ backup = [f \in Names |-> Absent]
    /\ pc = "idle" /\ todo = << >> /\ found = 0
    /\ out = Line("none", "none", NoName, 0)
    /\ runs = 0 /\ faults = 0
    /\ pristine = images
    /\ processed = {}
    /\ allThumbed = FALSE /\ skips = 0 /\ writes = 0

\* IMAGES_DIR.glob('*' + suffix): every entry of images/ whose name matches
Glob(suffix) == SortedSeq({f \in Present(images) : FnMatch(f, suffix)})

\* image_files after the loop over the four patterns
ImageFiles == Glob(Patterns[1]) \o Glob(Patterns[2]) \o Glob(Patterns[3]) \o Glob(Patterns[4])

\* ---- generate_thumbs.py ----
ThumbExists_unchecked(f) == FALSE
ThumbExists(f) == Exists(thumbs[f])

ThumbsStart ==
    /\ pc = "idle" /\ runs < MaxRuns
    /\ runs' = runs + 1
    /\ imagesDir' = TRUE /\ thumbsDir' = TRUE
    /\ found' = Len(ImageFiles)
    /\ skips' = 0 /\ writes' = 0
    /\ allThumbed' = \A i \in 1..Len(ImageFiles) : Exists(thumbs[ImageFiles[i]])
    /\ IF ImageFiles = << >>
       THEN /\ out' = Line("thumbs", "no_files", NoName, 0)
            /\ UNCHANGED <<pc, todo>>
       ELSE /\ out' = Line("thumbs", "found", NoName, Len(ImageFiles))
            /\ pc' = "thumbs"
            /\ todo' = Sorted(ImageFiles)
    /\ UNCHANGED <<backupDir, images, thumbs, backup, faults, pristine, processed>>

\* one iteration of the loop, generate_thumbnail included
ThumbsFile ==
    /\ pc = "thumbs" /\ todo # << >>
    /\ LET f   == Head(todo)
           img == images[f]
           nw  == ThumbWidth(img.w, img.h)
       IN  /\ todo' = Tail(todo)
           /\ IF ThumbExists(f)
              THEN /\ out' = Line("thumbs", "skipped", f, 0)
                   /\ skips' = skips + 1
                   /\ UNCHANGED <<thumbs, writes, faults>>
              ELSE IF ~Decodable(img) \/ ~Resizable(nw, THUMBNAIL_HEIGHT)
              THEN /\ out' = Line("thumbs", "error", f, 0)
                   /\ UNCHANGED <<thumbs, skips, writes, faults>>
              ELSE \/ /\ thumbs' = [thumbs EXCEPT ![f] = SavedThumb(img, nw, THUMBNAIL_HEIGHT)]
                      /\ out' = Line("thumbs", "generated", f, 0)
                      /\ writes' = writes + 1
                      /\ UNCHANGED <<skips, faults>>
                   \/ /\ faults < MaxFaults
                      /\ faults' = faults + 1
                      /\ \E left \in {Absent, Truncated(SavedThumb(img, nw, THUMBNAIL_HEIGHT))} :
                            thumbs' = [thumbs EXCEPT ![f] = left]
                      /\ out' = Line("thumbs", "error", f, 0)
                      /\ writes' = writes + 1
                      /\ UNCHANGED skips
    /\ UNCHANGED <<imagesDir, thumbsDir, backupDir, images, backup, pc, found, runs,
                   pristine, processed, allThumbed>>

ThumbsDone ==
    /\ pc = "thumbs" /\ todo = << >>
    /\ pc' = "idle"
    /\ out' = Line("thumbs", "done", NoName, 0)
    /\ UNCHANGED <<imagesDir, thumbsDir, backupDir, images, thumbs, backup, todo, found,
                   runs, faults, pristine, processed, allThumbed, skips, writes>>

\* ---- resize_for_web.py ----
\* whether images_backup/ exists once main is past the discovery
BackupDirAfter_early(list) == TRUE
BackupDirAfter(list) == IF list = << >> THEN backupDir ELSE TRUE

WebStart ==
    /\ pc = "idle" /\ runs < MaxRuns
    /\ runs' = runs + 1
    /\ IF ~imagesDir
       THEN /\ out' = Line("web", "no_dir", NoName, 0)
            /\ UNCHANGED <<backupDir, pc, todo, found>>
       ELSE /\ found' = Len(ImageFiles)
            /\ backupDir' = BackupDirAfter(ImageFiles)
            /\ IF ImageFiles = << >>
               THEN /\ out' = Line("web", "no_files", NoName, 0)
                    /\ UNCHANGED <<pc, todo>>
               ELSE /\ out' = Line("web", "found", NoName, Len(ImageFiles))
                    /\ pc' = "backup"
                    /\ todo' = Sorted(ImageFiles)
    /\ UNCHANGED <<imagesDir, thumbsDir, images, thumbs, backup, faults, pristine,
                   processed, allThumbed, skips, writes>>

\* the exception leaves main: traceback, the process ends
Traceback(f) ==
    /\ pc' = "idle"
    /\ todo' = << >>
    /\ out' = Line("web", "traceback", f, 0)

\* the first half of an iteration: the backup copy, outside any try
WebBackup ==
    /\ pc = "backup" /\ todo # << >>
    /\ LET f == Head(todo)
       IN  IF Exists(backup[f])
           THEN /\ pc' = "resize"
                /\ UNCHANGED <<backup, todo, out, faults>>
           ELSE IF images[f].kind = "dir"
           THEN /\ Traceback(f)
                /\ UNCHANGED <<backup, faults>>
           ELSE \/ /\ backup' = [backup EXCEPT ![f] = images[f]]
                   /\ pc' = "resize"
                   /\ UNCHANGED <<todo, out, faults>>
                \/ /\ faults < MaxFaults
                   /\ faults' = faults + 1
                   /\ \E left \in {Absent, Truncated(images[f])} :
                         backup' = [backup EXCEPT ![f] = left]
                   /\ Traceback(f)
    /\ UNCHANGED <<imagesDir, thumbsDir, backupDir, images, thumbs, found, runs,
                   pristine, processed, allThumbed, skips, writes>>

\* the second half of an iteration: resize_for_web(image_path).
\* exif_transpose returns an image for every image it is given, so the
\* "img is None" return is never taken.
WebResize ==
    /\ pc = "resize" /\ todo # << >>
    /\ LET f       == Head(todo)
           img     == ExifTranspose(images[f])
           width   == img.w
           height  == img.h
           scaled  == NeedsResize(width, height)
           new     == IF scaled THEN NewSize(width, height) ELSE [w |-> width, h |-> height]
           saved   == SavedWeb(img, new.w, new.h)
           success == IF scaled
                      THEN SizeLine("web", "resized", f, width, height, new.w, new.h)
                      ELSE SizeLine("web", "optimized", f, width, height, width, height)
       IN  /\ todo' = Tail(todo)
           /\ pc' = "backup"
           /\ IF ~Decodable(images[f]) \/ (scaled /\ ~Resizable(new.w, new.h))
              THEN /\ out' = Line("web", "error", f, 0)
                   /\ UNCHANGED <<images, processed, faults>>
              ELSE \/ /\ images' = [images EXCEPT ![f] = saved]
                      /\ out' = success
                      /\ processed' = processed \cup {f}
                      /\ UNCHANGED faults
                   \/ /\ faults < MaxFaults
                      /\ faults' = faults + 1
                      /\ \E left \in {images[f], Truncated(saved)} :
                            images' = [images EXCEPT ![f] = left]
                      /\ out' = Line("web", "error", f, 0)
                      /\ UNCHANGED processed
    /\ UNCHANGED <<imagesDir, thumbsDir, backupDir, thumbs, backup, found, runs,
                   pristine, allThumbed, skips, writes>>

WebDone ==
    /\ pc = "backup" /\ todo = << >>
    /\ pc' = "idle"
    /\ out' = Line("web", "done", NoName, found)
    /\ UNCHANGED <<imagesDir, thumbsDir, backupDir, images, thumbs, backup, todo, found,
                   runs, faults, pristine, processed, allThumbed, skips, writes>>

Next ==
    \/ ThumbsStart
    \/ ThumbsFile
    \/ ThumbsDone
    \/ WebStart
    \/ WebBackup
    \/ WebResize
    \/ WebDone

Spec == Init /\ [][Next]_vars

\* ---- properties ----
Succeeded(line) == line.kind \in {"optimized", "resized"}

\* C1: a backup, once there, holds the bytes the original had before any run, and
\* an original is changed only when such a backup is there
C1_BackupIsPristine ==
    \A f \in Names :
        (Exists(backup[f]) \/ images[f] # pristine[f]) => backup[f] = pristine[f]

\* C2: a thumbnail that exists is never written again, and a thumbnail run that
\* starts with a thumbnail for every discovered file ends with no save call and as
\* many skips as discovered files
C2_SkipIfExists ==
    [][ /\ \A f \in Names : Exists(thumbs[f]) => thumbs'[f] = thumbs[f]
        /\ (pc = "thumbs" /\ todo # << >> /\ Exists(thumbs[Head(todo)]))
              => (writes' = writes /\ skips' = skips + 1)
        /\ (pc = "thumbs" /\ pc' = "idle" /\ allThumbed)
              => (writes = 0 /\ skips = found) ]_vars

C2_Witness ==
    /\ out.by = "thumbs" /\ out.kind = "done"
    /\ allThumbed /\ found > 0 /\ skips = found /\ writes = 0

\* C3: no failure on a file ends a run: no run ends in an uncaught exception
C3_BatchNeverAborts == out.kind # "traceback"

\* C4 as claimed: a successful web run on an image no longer than MAX_DIMENSION
\* leaves the stored width and height as they were, whatever the orientation tag
C4_SmallKeepsStoredSize ==
    [][ (pc = "resize" /\ Succeeded(out')
         /\ Max(images[Head(todo)].w, images[Head(todo)].h) <= MAX_DIMENSION)
        => /\ images'[Head(todo)].w = images[Head(todo)].w
           /\ images'[Head(todo)].h = images[Head(todo)].h ]_vars

\* C4 as amended: such a run takes the no-resize branch and stores the upright
\* image: width and height as they were for no tag or a tag of 1..4, exchanged
\* for a tag of 5..8; the file is re-encoded at QUALITY without EXIF
C4_SmallKeepsUprightSize ==
    [][ (pc = "resize" /\ Succeeded(out')
         /\ Max(images[Head(todo)].w, images[Head(todo)].h) <= MAX_DIMENSION)
        => LET before == images[Head(todo)]
               after  == images'[Head(todo)]
           IN  /\ out'.kind = "optimized"
               /\ after.w = (IF before.o \in 5..8 THEN before.h ELSE before.w)
               /\ after.h = (IF before.o \in 5..8 THEN before.w ELSE before.h)
               /\ after.q = QUALITY /\ after.o = 0
               /\ after.enc = before.enc + 1 ]_vars

C4_Witness ==
    /\ out.kind = "optimized"
    /\ pristine[out.name] = Jpeg(2010, 500, 6)
    /\ images[out.name].w = 500 /\ images[out.name].h = 2010
    /\ images[out.name].enc = 1

\* C5: a resized image has its longer side at MAX_DIMENSION and its other side
\* at floor(shorter * MAX_DIMENSION / longer); a square one has both at MAX_DIMENSION
C5_ShorterSideIsFloor ==
    out.kind = "resized" =>
        /\ images[out.name].w = out.nw /\ images[out.name].h = out.nh
        /\ Max(out.nw, out.nh) = MAX_DIMENSION
        /\ Min(out.nw, out.nh) = (Min(out.w, out.h) * MAX_DIMENSION) \div Max(out.w, out.h)
        /\ (out.w = out.h => out.nw = MAX_DIMENSION /\ out.nh = MAX_DIMENSION)

\* C6 as claimed: a generated thumbnail is THUMBNAIL_HEIGHT high and
\* round(THUMBNAIL_HEIGHT * width / height) wide
C6_WidthIsRounded ==
    out.kind = "generated" =>
        /\ thumbs[out.name].h = THUMBNAIL_HEIGHT
        /\ thumbs[out.name].w =
              (2 * THUMBNAIL_HEIGHT * images[out.name].w + images[out.name].h)
                  \div (2 * images[out.name].h)

\* C6 as amended: a generated thumbnail is THUMBNAIL_HEIGHT high and its width
\* is the proportional width rounded down, or one less: at least 1, at most
\* THUMBNAIL_HEIGHT * width / height and less than one pixel and a bit below it
C6_WidthIsTruncated ==
    out.kind = "generated" =>
        LET src == images[out.name]
            th  == thumbs[out.name]
        IN  /\ th.h = THUMBNAIL_HEIGHT
            /\ th.w >= 1
            /\ th.w * src.h <= THUMBNAIL_HEIGHT * src.w
            /\ THUMBNAIL_HEIGHT * src.w <= (th.w + 1) * src.h

C6_Witness ==
    /\ out.kind = "generated"
    /\ images[out.name].w = 3040 /\ images[out.name].h = 1748
    /\ thumbs[out.name].w = 434 /\ thumbs[out.name].h = THUMBNAIL_HEIGHT

\* the upright size of a stored image, read off its orientation tag
UprightW(c) == IF c.o \in 5..8 THEN c.h ELSE c.w
UprightH(c) == IF c.o \in 5..8 THEN c.w ELSE c.h

\* b is a * MAX_DIMENSION / long rounded down, or one less
Proportional(b, a, long) ==
    b * long <= a * MAX_DIMENSION /\ a * MAX_DIMENSION <= (b + 1) * long

\* the saved file is the upright image, scaled to MAX_DIMENSION on its longer
\* side when that side is longer, with no orientation tag
UprightCapped(before, after) ==
    LET uw == UprightW(before)
        uh == UprightH(before)
    IN  /\ after.o = 0
        /\ IF Max(uw, uh) <= MAX_DIMENSION THEN after.w = uw /\ after.h = uh
           ELSE IF uw > uh
           THEN after.w = MAX_DIMENSION /\ Proportional(after.h, uh, uw)
           ELSE after.h = MAX_DIMENSION /\ Proportional(after.w, uw, uh)

\* C7 as claimed: a successfully processed file has no orientation tag and the
\* size of the upright image, capped at MAX_DIMENSION; one stored as 4000x3000
\* with orientation 6 is saved as 3000x2250
C7_Rotated4000x3000Is3000x2250 ==
    [][ (pc = "resize" /\ Succeeded(out'))
        => /\ UprightCapped(images[Head(todo)], images'[Head(todo)])
           /\ (images[Head(todo)].w = 4000 /\ images[Head(todo)].h = 3000
               /\ images[Head(todo)].o = 6)
                 => (images'[Head(todo)].w = 3000 /\ images'[Head(todo)].h = 2250) ]_vars

\* C7 as amended: the same, but the file stored as 4000x3000 with orientation 6 is
\* upright 3000x4000 and is saved as 2250x3000 (width x height)
C7_Rotated4000x3000Is2250x3000 ==
    [][ (pc = "resize" /\ Succeeded(out'))
        => /\ UprightCapped(images[Head(todo)], images'[Head(todo)])
           /\ (images[Head(todo)].w = 4000 /\ images[Head(todo)].h = 3000
               /\ images[Head(todo)].o = 6)
                 => (images'[Head(todo)].w = 2250 /\ images'[Head(todo)].h = 3000) ]_vars

C7_Witness ==
    /\ out.kind = "resized"
    /\ pristine[out.name] = Jpeg(4000, 3000, 6)
    /\ images[out.name].w = 2250 /\ images[out.name].h = 3000 /\ images[out.name].o = 0
    /\ images[out.name].enc = 1

\* the name ends with the suffix, ignoring case
EndsWithIgnoringCase(name, suffix) ==
    LET chars == LowerName(Chars(name))
    IN  /\ Len(chars) >= Len(suffix)
        /\ SubSeq(chars, Len(chars) - Len(suffix) + 1, Len(chars)) = LowerName(suffix)

\* an entry of images/ whose extension is jpg or jpeg in any mix of cases
HasJpegExtension(f) ==
    \/ EndsWithIgnoringCase(f, Patterns[1])
    \/ EndsWithIgnoringCase(f, Patterns[2])
JpegEntries == {f \in Present(images) : HasJpegExtension(f)}

\* C8 as claimed: with no JPEG in images/ a run reports that, writes no file and
\* ends, and the script's output directory exists afterwards
C8_EmptyCreatesOutputDir ==
    [][ (pc = "idle" /\ runs' = runs + 1 /\ imagesDir' /\ JpegEntries = {})
        => /\ out'.kind = "no_files" /\ pc' = "idle"
           /\ images' = images /\ thumbs' = thumbs /\ backup' = backup
           /\ (out'.by = "thumbs" => thumbsDir')
           /\ (out'.by = "web" => backupDir') ]_vars

\* C8 as amended: the thumbnail generator creates thumbs/ (and images/); the web
\* resizer returns before it creates images_backup/, which stays as it was
C8_EmptyWebLeavesBackupDir ==
    [][ (pc = "idle" /\ runs' = runs + 1 /\ imagesDir' /\ JpegEntries = {})
        => /\ out'.kind = "no_files" /\ pc' = "idle"
           /\ images' = images /\ thumbs' = thumbs /\ backup' = backup
           /\ (out'.by = "thumbs" => thumbsDir' /\ backupDir' = backupDir)
           /\ (out'.by = "web" => backupDir' = backupDir /\ thumbsDir' = thumbsDir) ]_vars

C8_Witness ==
    /\ out.by = "web" /\ out.kind = "no_files"
    /\ imagesDir /\ thumbsDir /\ ~backupDir
    /\ Present(images) = {} /\ Present(thumbs) = {} /\ Present(backup) = {}
    /\ runs = 2

\* C9: the job set is every entry of images/ with a jpg or jpeg extension in any
\* mix of cases, each once, in ascending order
C9_CaseInsensitiveDiscovery ==
    /\ out.kind = "found" => todo = SortedSeq(JpegEntries)
    /\ out.kind = "no_files" => JpegEntries = {}

\* C10: once resize_for_web has saved a file, every later successful pass over it
\* takes the no-resize branch and leaves its width and height as they are
C10_SecondPassKeepsSize ==
    [][ (pc = "resize" /\ Head(todo) \in processed /\ Succeeded(out'))
        => /\ out'.kind = "optimized"
           /\ images'[Head(todo)].w = images[Head(todo)].w
           /\ images'[Head(todo)].h = images[Head(todo)].h
           /\ images'[Head(todo)].enc = images[Head(todo)].enc + 1 ]_vars

C10_Witness ==
    /\ out.kind = "optimized" /\ runs = 2
    /\ pristine[out.name] = Jpeg(4000, 3000, 6)
    /\ images[out.name].w = 2250 /\ images[out.name].h = 3000
    /\ images[out.name].enc = 2
====
